---- MODULE Spec2Model ----
(***************************************************************************)
(* Run-time CPU feature detection probes of std_detect:                    *)
(*   os/freebsd/riscv.rs, os/fuchsia/aarch64.rs, os/netbsd/aarch64.rs,     *)
(*   os/openbsd/powerpc.rs, os/openbsd/mod.rs                              *)
(* together with the feature cache that publishes a probe's result.        *)
(*                                                                         *)
(* A Bitmask (cache::Initializer) is modelled as the set of Feature names  *)
(* whose bit is set.  The operating system is modelled as a set of         *)
(* answers that do not change during a process: the answers of the        *)
(* auxiliary vector, of zx_system_get_features and of the OpenBSD sysctl   *)
(* are drawn in Init, the answers of the NetBSD sysctls are drawn the      *)
(* first time a query is made and are remembered from then on.             *)
(***************************************************************************)
EXTENDS Integers, Sequences, FiniteSets, TLC

VARIABLES
    target,         \* the probe the Dispatcher selected at build time
    pointer_width,  \* cfg(target_pointer_width) / cfg(target_arch = "powerpc64")
    os_auxv,        \* FreeBSD: answer of auxvec::auxv()
    os_zx,          \* Fuchsia: answer of zx_system_get_features
    os_altivec,     \* OpenBSD: answer of sysctl [CTL_MACHDEP, CPU_ALTIVEC]
    os_ncpu,        \* NetBSD: answer of sysctl [CTL_HW, HW_NCPU]
    os_cpu,         \* NetBSD: answer of sysctlbyname machdep.cpuN.cpu_id, per core
    pc,             \* per thread: position of the running call
    value,          \* per thread: the Bitmask detect_features returned
    cpu_id_buf,     \* per stack slot: NetBSD read buffer (aarch64_sysctl_cpu_id)
    cpu0,           \* per thread: NetBSD local cpu0
    cpu,            \* per thread: NetBSD local cpu of the last loop iteration
    cpus,           \* per thread: NetBSD local cpus
    n,              \* per thread: NetBSD loop variable
    name_buf,       \* per thread: MachdepNameBuffer.buf
    results,        \* Bitmasks returned by the successive direct calls
    cache,          \* the process-wide cache entry
    observed,       \* per thread: Bitmasks its cache queries returned
    name_arg,       \* argument of the last MachdepNameBuffer::name call
    name_ret,       \* slice the last MachdepNameBuffer::name call returned
    name_oob        \* TRUE once a buffer write fell outside the buffer

vars == <<target, pointer_width, os_auxv, os_zx, os_altivec, os_ncpu, os_cpu,
          pc, value, cpu_id_buf, cpu0, cpu, cpus, n, name_buf,
          results, cache, observed, name_arg, name_ret, name_oob>>

----------------------------------------------------------------------------
(* Bounds of the model *)

\* largest core count the NetBSD kernel reports
MaxCpus == 3
\* number of successive direct calls of detect_features
MaxCalls == 2
\* number of threads that query the cache
NThreads == 2
\* cache queries per thread
MaxQueries == 2
\* core indices 0..MaxIdx are all given to MachdepNameBuffer::name
MaxIdx == 11

Threads == 1..NThreads

RECURSIVE SetSum(_)
SetSum(S) == IF S = {} THEN 0
             ELSE LET x == CHOOSE y \in S : TRUE IN x + SetSum(S \ {x})

RECURSIVE Pow10(_)
Pow10(k) == IF k = 0 THEN 1 ELSE 10 * Pow10(k - 1)

----------------------------------------------------------------------------
(* cache::Initializer *)

InitializerDefault == {}

InitializerSet(v, f) == v \cup {f}

\* enable_feature closure: if enable { value.set(f) }
enable_feature(v, f, enable) == IF enable THEN InitializerSet(v, f) ELSE v

RECURSIVE enable_features(_, _, _)
enable_features(v, feature_slice, enable) ==
    IF ~enable \/ feature_slice = <<>> THEN v
    ELSE enable_features(InitializerSet(v, Head(feature_slice)),
                         Tail(feature_slice), enable)

\* bit::test(x, bit): x & (1 << bit) != 0
BitTest(x, b) == (x \div (2 ^ b)) % 2 = 1

----------------------------------------------------------------------------
(* os/freebsd/riscv.rs *)

\* ASCII codes of the capability letters (b'a', b'c', ...)
Ascii == [a |-> 97, c |-> 99, d |-> 100, f |-> 102, i |-> 105, m |-> 109]

\* Err(()) of auxvec::auxv()
AuxvErr == <<"Err">>

AuxvOk(hwcap) == <<"Ok", hwcap>>

\* a plausible slip: bit 'f' enables f alone
enable_f_only(v, hwcap) ==
    enable_features(v, <<"f">>, BitTest(hwcap, Ascii.f - Ascii.a))

\* lines 40-44: bit 'f' enables f and zicsr
enable_f(v, hwcap) ==
    enable_features(v, <<"f", "zicsr">>, BitTest(hwcap, Ascii.f - Ascii.a))

\* detect_features of FreeBSD RISC-V; auxv is the answer of auxvec::auxv()
freebsd_detect_features(auxv, width) ==
    LET value0 == InitializerDefault IN
    IF auxv[1] = "Ok" THEN
        LET hwcap == auxv[2]
            v1 == enable_feature(value0, "a", BitTest(hwcap, Ascii.a - Ascii.a))
            v2 == enable_feature(v1, "c", BitTest(hwcap, Ascii.c - Ascii.a))
            v3 == enable_features(v2, <<"d", "f", "zicsr">>,
                                  BitTest(hwcap, Ascii.d - Ascii.a))
            v4 == enable_f(v3, hwcap)
            has_i == BitTest(hwcap, Ascii.i - Ascii.a)
            v5 == IF width = 64 THEN enable_feature(v4, "rv64i", has_i)
                  ELSE enable_feature(v4, "rv32i", has_i)
            v6 == enable_feature(v5, "m", BitTest(hwcap, Ascii.m - Ascii.a))
        IN v6
    ELSE value0

\* hardware-capability words the auxiliary vector is drawn from: every
\* combination of the letters the probe reads and of one it does not ('b')
HwcapBits == {Ascii.a - Ascii.a, 1, Ascii.c - Ascii.a, Ascii.d - Ascii.a,
              Ascii.f - Ascii.a, Ascii.i - Ascii.a, Ascii.m - Ascii.a}

HwcapWords == {SetSum({2 ^ b : b \in S}) : S \in SUBSET HwcapBits}

----------------------------------------------------------------------------
(* os/fuchsia/aarch64.rs *)

ZX_OK == 0
ZX_ARM64_FEATURE_ISA_FP == 2
ZX_ARM64_FEATURE_ISA_ASIMD == 4
ZX_ARM64_FEATURE_ISA_AES == 8
ZX_ARM64_FEATURE_ISA_PMULL == 16
ZX_ARM64_FEATURE_ISA_SHA1 == 32
ZX_ARM64_FEATURE_ISA_SHA256 == 64
ZX_ARM64_FEATURE_ISA_CRC32 == 128
ZX_ARM64_FEATURE_ISA_ATOMICS == 256
ZX_ARM64_FEATURE_ISA_RDM == 512
ZX_ARM64_FEATURE_ISA_SHA3 == 1024
ZX_ARM64_FEATURE_ISA_SM3 == 2048
ZX_ARM64_FEATURE_ISA_SM4 == 4096
ZX_ARM64_FEATURE_ISA_DP == 8192
ZX_ARM64_FEATURE_ISA_DPB == 16384
ZX_ARM64_FEATURE_ISA_FHM == 32768
ZX_ARM64_FEATURE_ISA_TS == 65536
ZX_ARM64_FEATURE_ISA_RNDR == 131072
ZX_ARM64_FEATURE_ISA_SHA512 == 262144

\* features & FLAG != 0, FLAG a single bit
HasFlag(features, flag) == (features \div flag) % 2 = 1

\* a plausible slip: sha3 without the SHA512 prerequisite
sha3_rule_without_sha512(sha1, sha2, sha512, sha3) == sha1 /\ sha2 /\ sha3

\* line 76: sha1 && sha2 && sha512 && sha3
sha3_rule(sha1, sha2, sha512, sha3) == sha1 /\ sha2 /\ sha512 /\ sha3

\* detect_features of Fuchsia; zx = [res, features] is what
\* zx_system_get_features returned and stored
fuchsia_detect_features(zx) ==
    LET value0 == InitializerDefault
        features == zx.features
    IN
    IF zx.res # ZX_OK THEN value0
    ELSE
        LET v1 == enable_feature(value0, "fp", HasFlag(features, ZX_ARM64_FEATURE_ISA_FP))
            v2 == enable_feature(v1, "asimd", HasFlag(features, ZX_ARM64_FEATURE_ISA_ASIMD))
            v3 == enable_feature(v2, "pmull", HasFlag(features, ZX_ARM64_FEATURE_ISA_PMULL))
            v4 == enable_feature(v3, "crc", HasFlag(features, ZX_ARM64_FEATURE_ISA_CRC32))
            v5 == enable_feature(v4, "lse", HasFlag(features, ZX_ARM64_FEATURE_ISA_ATOMICS))
            v6 == enable_feature(v5, "rdm", HasFlag(features, ZX_ARM64_FEATURE_ISA_RDM))
            v7 == enable_feature(v6, "dotprod", HasFlag(features, ZX_ARM64_FEATURE_ISA_DP))
            v8 == enable_feature(v7, "dpb", HasFlag(features, ZX_ARM64_FEATURE_ISA_DPB))
            v9 == enable_feature(v8, "fhm", HasFlag(features, ZX_ARM64_FEATURE_ISA_FHM))
            v10 == enable_feature(v9, "flagm", HasFlag(features, ZX_ARM64_FEATURE_ISA_TS))
            v11 == enable_feature(v10, "rand", HasFlag(features, ZX_ARM64_FEATURE_ISA_RNDR))
            v12 == enable_feature(v11, "aes", HasFlag(features, ZX_ARM64_FEATURE_ISA_AES))
            sha1 == HasFlag(features, ZX_ARM64_FEATURE_ISA_SHA1)
            sha2 == HasFlag(features, ZX_ARM64_FEATURE_ISA_SHA256)
            v13 == enable_feature(v12, "sha2", sha1 /\ sha2)
            sha512 == HasFlag(features, ZX_ARM64_FEATURE_ISA_SHA512)
            sha3 == HasFlag(features, ZX_ARM64_FEATURE_ISA_SHA3)
            v14 == enable_feature(v13, "sha3", sha3_rule(sha1, sha2, sha512, sha3))
            sm3 == HasFlag(features, ZX_ARM64_FEATURE_ISA_SM3)
            sm4 == HasFlag(features, ZX_ARM64_FEATURE_ISA_SM4)
            v15 == enable_feature(v14, "sm4", sm3 /\ sm4)
        IN v15

\* flag words zx_system_get_features is drawn from: every combination of the
\* cryptographic flags, with all the remaining flags clear or all set
CryptoFlags == {ZX_ARM64_FEATURE_ISA_AES, ZX_ARM64_FEATURE_ISA_SHA1,
                ZX_ARM64_FEATURE_ISA_SHA256, ZX_ARM64_FEATURE_ISA_SHA3,
                ZX_ARM64_FEATURE_ISA_SM3, ZX_ARM64_FEATURE_ISA_SM4,
                ZX_ARM64_FEATURE_ISA_SHA512}

OtherFlags == {ZX_ARM64_FEATURE_ISA_FP, ZX_ARM64_FEATURE_ISA_ASIMD,
               ZX_ARM64_FEATURE_ISA_PMULL, ZX_ARM64_FEATURE_ISA_CRC32,
               ZX_ARM64_FEATURE_ISA_ATOMICS, ZX_ARM64_FEATURE_ISA_RDM,
               ZX_ARM64_FEATURE_ISA_DP, ZX_ARM64_FEATURE_ISA_DPB,
               ZX_ARM64_FEATURE_ISA_FHM, ZX_ARM64_FEATURE_ISA_TS,
               ZX_ARM64_FEATURE_ISA_RNDR}

FlagWords == {SetSum(S) + o : S \in SUBSET CryptoFlags, o \in {0, SetSum(OtherFlags)}}

\* statuses of zx_system_get_features: ZX_OK, ZX_ERR_INTERNAL, ZX_ERR_NOT_SUPPORTED
ZxAnswers == {[res |-> ZX_OK, features |-> w] : w \in FlagWords}
             \cup {[res |-> r, features |-> 0] : r \in {-1, -2}}

----------------------------------------------------------------------------
(* os/openbsd/powerpc.rs, os/openbsd/mod.rs *)

CTL_MACHDEP == 7

\* cfg_if: CPU_ALTIVEC is 1 on powerpc64 and 2 otherwise
CPU_ALTIVEC(width) == IF width = 64 THEN 1 ELSE 2

\* size_of::<libc::c_int>()
SIZEOF_INT == 4

None == <<>>

Some(x) == <<x>>

\* what libc::sysctl does with the key mib: the kernel knows the AltiVec key
\* of its own architecture and no other machdep key
openbsd_sysctl(mib, width) ==
    IF mib = <<CTL_MACHDEP, CPU_ALTIVEC(width)>> THEN os_altivec
    ELSE [res |-> -1, out_len |-> SIZEOF_INT, out |-> 0]

\* a plausible slip: the byte count is not looked at
sysctl_int_unchecked_len(mib, width) ==
    LET a == openbsd_sysctl(mib, width) IN
    IF a.res = -1 THEN None ELSE Some(a.out)

\* sysctl_int
sysctl_int(mib, width) ==
    LET a == openbsd_sysctl(mib, width) IN
    IF a.res = -1 \/ a.out_len # SIZEOF_INT THEN None ELSE Some(a.out)

\* detect_features of OpenBSD PowerPC
openbsd_powerpc_detect_features(width) ==
    LET value0 == InitializerDefault IN
    enable_feature(value0, "altivec",
                   sysctl_int(<<CTL_MACHDEP, CPU_ALTIVEC(width)>>, width) = Some(1))

\* detect_features of OpenBSD on an architecture without a probe
openbsd_default_detect_features == InitializerDefault

\* answers of the AltiVec sysctl: an error, a wrong byte count, or an integer
AltivecAnswers ==
    {[res |-> r, out_len |-> l, out |-> o] :
        r \in {0, -1}, l \in {0, SIZEOF_INT, 2 * SIZEOF_INT}, o \in {-1, 0, 1, 2}}

----------------------------------------------------------------------------
(* os/netbsd/aarch64.rs: MachdepNameBuffer *)

\* b"machdep.cpu"
NAME_PREFIX == <<109, 97, 99, 104, 100, 101, 112, 46, 99, 112, 117>>

\* b".cpu_id\0"
NAME_SUFFIX == <<46, 99, 112, 117, 95, 105, 100, 0>>

U32_MAX_LEN == 10

NAME_MAX_LEN == Len(NAME_PREFIX) + Len(NAME_SUFFIX) + U32_MAX_LEN

\* MachdepNameBuffer::new
MachdepNameBuffer_new ==
    [i \in 1..NAME_MAX_LEN |-> IF i <= Len(NAME_PREFIX) THEN NAME_PREFIX[i] ELSE 0]

\* self.buf[len] = byte; len += 1   (st.len is the 0-based index of the code;
\* an index outside the array panics: the write is not made, oob records it)
PutByte(st, byte) ==
    IF st.len < NAME_MAX_LEN
    THEN [st EXCEPT !.buf = [st.buf EXCEPT ![st.len + 1] = byte], !.len = st.len + 1]
    ELSE [st EXCEPT !.oob = TRUE]

\* (n as u8) + b'0'
DigitByte(d) == (d % 256) + 48

\* a plausible slip: the remainder is not taken
PutDigitNoRem(st, cur) == PutByte(st, DigitByte(st.cpu \div cur))

\* one arm of put!: let n = cpu / cur; self.buf[len] = n + b'0'; len += 1; cpu %= cur
PutDigit(st, cur) ==
    LET w == PutByte(st, DigitByte(st.cpu \div cur))
    IN [w EXCEPT !.cpu = st.cpu % cur]

\* put!(10 100 ... 1000000000), k the position in the list: cur = 10^k
RECURSIVE put(_, _)
put(st, k) ==
    IF k > 9 THEN st
    ELSE IF st.cpu >= Pow10(k) THEN PutDigit(put(st, k + 1), Pow10(k))
    ELSE st

\* self.buf[len..len + NAME_SUFFIX.len()].copy_from_slice(NAME_SUFFIX); len += ..
PutSuffix(st) ==
    IF st.len + Len(NAME_SUFFIX) <= NAME_MAX_LEN
    THEN [st EXCEPT !.buf = [i \in 1..NAME_MAX_LEN |->
                                IF i > st.len /\ i <= st.len + Len(NAME_SUFFIX)
                                THEN NAME_SUFFIX[i - st.len] ELSE st.buf[i]],
                    !.len = st.len + Len(NAME_SUFFIX)]
    ELSE [st EXCEPT !.oob = TRUE]

\* MachdepNameBuffer::name: [buf: the buffer afterwards, ret: &self.buf[..len],
\* oob: a write fell outside the buffer]
MachdepNameBuffer_name(buf, cpu_arg) ==
    LET st0 == [buf |-> buf, len |-> Len(NAME_PREFIX), cpu |-> cpu_arg, oob |-> FALSE]
        st1 == put(st0, 1)
        st2 == PutByte(st1, DigitByte(st1.cpu))
        st3 == PutSuffix(st2)
    IN [buf |-> st3.buf, ret |-> SubSeq(st3.buf, 1, st3.len), oob |-> st3.oob]

----------------------------------------------------------------------------
(* os/netbsd/aarch64.rs: the operating system *)

\* byte offset at which each modelled field of aarch64_sysctl_cpu_id ends
FieldEnd == [midr |-> 8, aa64isar0 |-> 48, aa64isar1 |-> 56,
             aa64mmfr2 |-> 80, aa64pfr0 |-> 88]

Fields == DOMAIN FieldEnd

\* size_of::<aarch64_sysctl_cpu_id>()
CPU_ID_LEN == 136

\* size_of::<u32>()
SIZEOF_U32 == 4

CTL_HW == 6

HW_NCPU == 3

\* the cores that have a machdep.cpuN node
Cores == 0..(MaxCpus - 1)

\* register readings of a core: one reference reading and the readings that
\* differ from it in exactly one field
RefRegs == [f \in Fields |-> 0]

RegReadings == {RefRegs} \cup {[RefRegs EXCEPT ![f] = 1] : f \in Fields}

\* byte counts sysctlbyname reports on success: the structure through
\* aa64isar1 only, and the whole structure
CpuIdLens == {FieldEnd.aa64isar1, CPU_ID_LEN}

\* answers of sysctlbyname machdep.cpuN.cpu_id
CpuIdAnswers ==
    {[res |-> -1, out_len |-> 0, regs |-> RefRegs]}
    \cup {[res |-> 0, out_len |-> l, regs |-> r] : l \in CpuIdLens, r \in RegReadings}

\* answers of sysctl [CTL_HW, HW_NCPU]
NcpuAnswers ==
    {[res |-> -1, out_len |-> SIZEOF_U32, out |-> 0],
     [res |-> 0, out_len |-> 2 * SIZEOF_U32, out |-> 2]}
    \cup {[res |-> 0, out_len |-> SIZEOF_U32, out |-> c] : c \in 0..MaxCpus}

\* decimal digits of a core index, as the kernel prints its node names
RECURSIVE Decimal(_)
Decimal(x) == IF x < 10 THEN <<48 + x>> ELSE Append(Decimal(x \div 10), 48 + (x % 10))

\* the node name of core c, NUL-terminated
NodeName(c) == NAME_PREFIX \o Decimal(c) \o NAME_SUFFIX

\* the core whose node a name designates, -1 if there is no such node
KernelCoreOfName(name) ==
    IF \E c \in Cores : NodeName(c) = name
    THEN CHOOSE c \in Cores : NodeName(c) = name
    ELSE -1

\* the kernel's copy-out: the first out_len bytes of the structure are written,
\* src records the core whose read wrote the field (-1: the zeroed bytes)
KernelCopyOut(buf, ans, core) ==
    [f \in Fields |-> IF FieldEnd[f] <= ans.out_len
                      THEN [val |-> ans.regs[f], src |-> core]
                      ELSE buf[f]]

----------------------------------------------------------------------------
(* os/netbsd/aarch64.rs: the probe *)

\* super::aarch64::parse_system_registers, on the fields the model keeps:
\* CRC32 of ID_AA64ISAR0, DPB of ID_AA64ISAR1, AT of ID_AA64MMFR2, FP of ID_AA64PFR0
parse_system_registers(aa64isar0, aa64isar1, aa64mmfr2, aa64pfr0) ==
    LET v1 == enable_feature(InitializerDefault, "crc", aa64isar0 >= 1)
        v2 == enable_feature(v1, "dpb", aa64isar1 >= 1)
        v3 == enable_feature(v2, "lse2", aa64mmfr2 >= 1)
        v4 == IF aa64pfr0 = None THEN v3
              ELSE enable_feature(enable_feature(v3, "fp", aa64pfr0[1] < 15),
                                  "fphp", aa64pfr0[1] >= 1)
    IN v4

\* an aarch64_sysctl_cpu_id of zero bytes
ZeroCpuId == [f \in Fields |-> [val |-> 0, src |-> -1]]

\* a plausible slip: the buffer is left as the stack slot holds it
mem_uninit(old) == old

\* core::mem::zeroed() stored into the stack slot of cpu_id_buf
mem_zeroed(old) == ZeroCpuId

\* a plausible slip: one static buffer for every call
BufShared(t) == 1

\* the stack slot of the local cpu_id_buf of the call thread t runs
BufSlot(t) == t

\* sysctl32: a is the kernel's answer
sysctl32(a) ==
    IF a.res = -1 \/ a.out_len # SIZEOF_U32 THEN None ELSE Some(a.out)

\* a plausible slip: the main ID register is made part of the tuple
AA64RegWithMidr(buf) ==
    <<buf.aa64isar0, buf.aa64isar1, buf.aa64mmfr2, buf.aa64pfr0, buf.midr>>

\* the tuple sysctl_cpu_id builds from the buffer
AA64Reg(buf) == <<buf.aa64isar0, buf.aa64isar1, buf.aa64mmfr2, buf.aa64pfr0>>

\* sysctl_cpu_id: ans is the kernel's answer for the node `name` designates
\* (no node: ENOENT).  [buf: the buffer afterwards, ret: Option<AA64Reg>]
sysctl_cpu_id(buf, name, ans) ==
    LET core == KernelCoreOfName(name)
        res == IF core = -1 THEN -1 ELSE ans.res
        buf1 == IF res = 0 THEN KernelCopyOut(buf, ans, core) ELSE buf
    IN IF res # 0 THEN [buf |-> buf1, ret |-> None]
       ELSE [buf |-> buf1, ret |-> Some(AA64Reg(buf1))]

\* the register values of a tuple
Vals(reg) == [i \in DOMAIN reg |-> reg[i].val]

\* cpu != cpu0
cpu_ne(a, b) == Vals(a) # Vals(b)

\* parse_system_registers(cpu0.0, cpu0.1, cpu0.2, Some(cpu0.3))
parse_cpu0(c0) ==
    parse_system_registers(c0[1].val, c0[2].val, c0[3].val, Some(c0[4].val))

----------------------------------------------------------------------------
(* The state machine *)

Targets == {"freebsd_riscv", "fuchsia_aarch64", "netbsd_aarch64",
            "openbsd_powerpc", "openbsd_default"}

\* the state of the threads and of the cache at process start
Idle ==
    /\ pc = [t \in Threads |-> "idle"]
    /\ value = [t \in Threads |-> InitializerDefault]
    /\ cpu_id_buf = [t \in Threads |-> ZeroCpuId]
    /\ cpu0 = [t \in Threads |-> <<>>]
    /\ cpu = [t \in Threads |-> <<>>]
    /\ cpus = [t \in Threads |-> 0]
    /\ n = [t \in Threads |-> 0]
    /\ name_buf = [t \in Threads |-> MachdepNameBuffer_new]
    /\ results = <<>>
    /\ cache = None
    /\ observed = [t \in Threads |-> <<>>]
    /\ name_arg = 0
    /\ name_ret = <<>>
    /\ name_oob = FALSE

FailedAltivec == [res |-> -1, out_len |-> SIZEOF_INT, out |-> 0]

FailedZx == [res |-> -1, features |-> 0]

Init ==
    /\ target \in Targets
    /\ pointer_width \in IF target \in {"freebsd_riscv", "openbsd_powerpc"}
                         THEN {32, 64} ELSE {64}
    /\ os_auxv \in IF target = "freebsd_riscv"
                   THEN {AuxvErr} \cup {AuxvOk(w) : w \in HwcapWords}
                   ELSE {AuxvErr}
    /\ os_zx \in IF target = "fuchsia_aarch64" THEN ZxAnswers ELSE {FailedZx}
    /\ os_altivec \in IF target = "openbsd_powerpc" THEN AltivecAnswers
                      ELSE {FailedAltivec}
    /\ os_ncpu = None
    /\ os_cpu = [c \in Cores |-> None]
    /\ Idle

NetbsdLocals == <<cpu_id_buf, cpu0, cpu, cpus, n, name_buf, name_oob>>

OsVars == <<target, pointer_width, os_auxv, os_zx, os_altivec>>

NameVars == <<name_arg, name_ret>>

\* return v from detect_features
Ret(t, v) ==
    /\ value' = [value EXCEPT ![t] = v]
    /\ pc' = [pc EXCEPT ![t] = "ret"]

\* detect_features of FreeBSD RISC-V
FreebsdDetect(t) ==
    /\ pc[t] = "call" /\ target = "freebsd_riscv"
    /\ Ret(t, freebsd_detect_features(os_auxv, pointer_width))
    /\ UNCHANGED <<OsVars, os_ncpu, os_cpu, NetbsdLocals, results, cache, observed, NameVars>>

\* detect_features of Fuchsia AArch64
FuchsiaDetect(t) ==
    /\ pc[t] = "call" /\ target = "fuchsia_aarch64"
    /\ Ret(t, fuchsia_detect_features(os_zx))
    /\ UNCHANGED <<OsVars, os_ncpu, os_cpu, NetbsdLocals, results, cache, observed, NameVars>>

\* detect_features of OpenBSD PowerPC
OpenbsdPowerpcDetect(t) ==
    /\ pc[t] = "call" /\ target = "openbsd_powerpc"
    /\ Ret(t, openbsd_powerpc_detect_features(pointer_width))
    /\ UNCHANGED <<OsVars, os_ncpu, os_cpu, NetbsdLocals, results, cache, observed, NameVars>>

\* detect_features of OpenBSD without a probe
OpenbsdDefaultDetect(t) ==
    /\ pc[t] = "call" /\ target = "openbsd_default"
    /\ Ret(t, openbsd_default_detect_features)
    /\ UNCHANGED <<OsVars, os_ncpu, os_cpu, NetbsdLocals, results, cache, observed, NameVars>>

\* the kernel answers the query of `name` with ans: the answer of a node is
\* drawn the first time the node is read and stays the same afterwards
KernelAnswers(name, ans) ==
    LET c == KernelCoreOfName(name) IN
    IF c = -1 THEN ans.res = -1 /\ UNCHANGED os_cpu
    ELSE /\ os_cpu[c] \in {None, Some(ans)}
         /\ os_cpu' = [os_cpu EXCEPT ![c] = Some(ans)]

\* b"machdep.cpu0.cpu_id\0"
CPU0_NAME == <<109, 97, 99, 104, 100, 101, 112, 46, 99, 112, 117, 48,
               46, 99, 112, 117, 95, 105, 100, 0>>

\* NetBSD detect_features, line 42: the local buffer is zeroed
NetbsdEnter(t) ==
    /\ pc[t] = "call" /\ target = "netbsd_aarch64"
    /\ LET slot == BufSlot(t) IN
       cpu_id_buf' = [cpu_id_buf EXCEPT ![slot] = mem_zeroed(cpu_id_buf[slot])]
    /\ cpu0' = [cpu0 EXCEPT ![t] = <<>>]
    /\ cpu' = [cpu EXCEPT ![t] = <<>>]
    /\ pc' = [pc EXCEPT ![t] = "cpu0"]
    /\ UNCHANGED <<OsVars, os_ncpu, os_cpu, value, cpus, n, name_buf, name_oob,
                   results, cache, observed, NameVars>>

\* NetBSD detect_features, lines 46-49: read core 0
NetbsdReadCpu0(t) ==
    /\ pc[t] = "cpu0"
    /\ \E ans \in CpuIdAnswers :
        /\ KernelAnswers(CPU0_NAME, ans)
        /\ LET slot == BufSlot(t)
               r == sysctl_cpu_id(cpu_id_buf[slot], CPU0_NAME, ans)
           IN /\ cpu_id_buf' = [cpu_id_buf EXCEPT ![slot] = r.buf]
              /\ IF r.ret = None
                 THEN Ret(t, InitializerDefault) /\ UNCHANGED cpu0
                 ELSE /\ cpu0' = [cpu0 EXCEPT ![t] = r.ret[1]]
                      /\ pc' = [pc EXCEPT ![t] = "ncpu"]
                      /\ UNCHANGED value
    /\ UNCHANGED <<OsVars, os_ncpu, cpu, cpus, n, name_buf, name_oob, results, cache,
                   observed, NameVars>>

\* NetBSD detect_features, lines 54-72: read the number of cores
NetbsdReadNcpu(t) ==
    /\ pc[t] = "ncpu"
    /\ \E a \in NcpuAnswers :
        /\ os_ncpu \in {None, Some(a)}
        /\ os_ncpu' = Some(a)
        /\ LET r == sysctl32(a) IN
           IF r = None \/ r = Some(0)
           THEN Ret(t, InitializerDefault) /\ UNCHANGED <<cpus, n, name_buf>>
           ELSE IF r = Some(1)
           THEN Ret(t, parse_cpu0(cpu0[t])) /\ UNCHANGED <<cpus, n, name_buf>>
           ELSE /\ cpus' = [cpus EXCEPT ![t] = r[1]]
                /\ n' = [n EXCEPT ![t] = 1]
                /\ name_buf' = [name_buf EXCEPT ![t] = MachdepNameBuffer_new]
                /\ pc' = [pc EXCEPT ![t] = "loop"]
                /\ UNCHANGED value
    /\ UNCHANGED <<OsVars, os_cpu, cpu_id_buf, cpu0, cpu, name_oob, results, cache,
                   observed, NameVars>>

\* NetBSD detect_features, lines 73-83: one iteration of the loop over the
\* cores 1..cpus-1, and the return that follows the last one
NetbsdLoop(t) ==
    /\ pc[t] = "loop"
    /\ LET nm == MachdepNameBuffer_name(name_buf[t], n[t])
           slot == BufSlot(t)
       IN
       /\ name_buf' = [name_buf EXCEPT ![t] = nm.buf]
       /\ name_oob' = (name_oob \/ nm.oob)
       /\ \E ans \in CpuIdAnswers :
           /\ KernelAnswers(nm.ret, ans)
           /\ LET r == sysctl_cpu_id(cpu_id_buf[slot], nm.ret, ans) IN
              /\ cpu_id_buf' = [cpu_id_buf EXCEPT ![slot] = r.buf]
              /\ IF r.ret = None
                 THEN /\ Ret(t, InitializerDefault)
                      /\ cpu' = [cpu EXCEPT ![t] = <<>>]
                      /\ UNCHANGED n
                 ELSE /\ cpu' = [cpu EXCEPT ![t] = r.ret[1]]
                      /\ IF cpu_ne(r.ret[1], cpu0[t])
                         THEN Ret(t, InitializerDefault) /\ UNCHANGED n
                         ELSE IF n[t] + 1 < cpus[t]
                         THEN /\ n' = [n EXCEPT ![t] = n[t] + 1]
                              /\ UNCHANGED <<pc, value>>
                         ELSE Ret(t, parse_cpu0(cpu0[t])) /\ UNCHANGED n
    /\ UNCHANGED <<OsVars, os_ncpu, cpu0, cpus, results, cache, observed, NameVars>>

\* the steps of the Dispatcher-selected detect_features
Probe(t) ==
    \/ FreebsdDetect(t)
    \/ FuchsiaDetect(t)
    \/ OpenbsdPowerpcDetect(t)
    \/ OpenbsdDefaultDetect(t)
    \/ NetbsdEnter(t)
    \/ NetbsdReadCpu0(t)
    \/ NetbsdReadNcpu(t)
    \/ NetbsdLoop(t)

Untouched == <<OsVars, os_ncpu, os_cpu, value, NetbsdLocals, NameVars>>

\* a direct call of detect_features
Call(t) ==
    /\ pc[t] = "idle"
    /\ Len(results) < MaxCalls
    /\ pc' = [pc EXCEPT ![t] = "call"]
    /\ UNCHANGED <<Untouched, results, cache, observed>>

\* the direct call returns to its caller
Return(t) ==
    /\ pc[t] = "ret"
    /\ results' = Append(results, value[t])
    /\ pc' = [pc EXCEPT ![t] = "idle"]
    /\ UNCHANGED <<Untouched, cache, observed>>

\* the thread that makes the direct calls
DirectCallers == {1}

Next ==
    \E t \in DirectCallers :
        \/ Call(t)
        \/ FreebsdDetect(t)
        \/ FuchsiaDetect(t)
        \/ OpenbsdPowerpcDetect(t)
        \/ OpenbsdDefaultDetect(t)
        \/ NetbsdEnter(t)
    \/ NetbsdReadCpu0(t)
        \/ NetbsdReadNcpu(t)
        \/ NetbsdLoop(t)
        \/ Return(t)

Spec == Init /\ [][Next]_vars

----------------------------------------------------------------------------
(* The cache: a query returns the published Bitmask, or runs the probe and
   publishes what it returned (detect_and_initialize) *)

\* cache.is_uninitialized()
is_uninitialized(c) == c = None

\* CACHE.initialize(value): the entry is overwritten with the Bitmask
initialize(c, v) == Some(v)

\* a feature query: hit, or miss and enter detect_features
Query(t) ==
    /\ pc[t] = "idle"
    /\ Len(observed[t]) < MaxQueries
    /\ IF is_uninitialized(cache)
       THEN pc' = [pc EXCEPT ![t] = "call"] /\ UNCHANGED observed
       ELSE observed' = [observed EXCEPT ![t] = Append(@, cache[1])] /\ UNCHANGED pc
    /\ UNCHANGED <<Untouched, results, cache>>

\* detect_features returned: publish the Bitmask and answer the query from it
Publish(t) ==
    /\ pc[t] = "ret"
    /\ cache' = initialize(cache, value[t])
    /\ observed' = [observed EXCEPT ![t] = Append(@, value[t])]
    /\ pc' = [pc EXCEPT ![t] = "idle"]
    /\ UNCHANGED <<Untouched, results>>

\* readings the machines of the cache specification give
FullReading == [res |-> 0, out_len |-> CPU_ID_LEN, regs |-> [RefRegs EXCEPT !.aa64mmfr2 = 1]]

ShortReading == [res |-> 0, out_len |-> FieldEnd.aa64isar1, regs |-> RefRegs]

OtherReading == [res |-> 0, out_len |-> CPU_ID_LEN, regs |-> [RefRegs EXCEPT !.aa64isar0 = 1]]

FailedReading == [res |-> -1, out_len |-> 0, regs |-> RefRegs]

\* NetBSD machines: the cores before core k give FullReading, the others a
PresetCpus(k, a) == [c \in Cores |-> IF c < k THEN Some(FullReading) ELSE Some(a)]

\* the cache specification starts from a few machines of each target
CacheInit ==
    /\ target \in Targets
    /\ pointer_width = 64
    /\ os_auxv \in IF target = "freebsd_riscv"
                   THEN {AuxvErr, AuxvOk(2 ^ (Ascii.d - Ascii.a)), AuxvOk(2 ^ (Ascii.f - Ascii.a))}
                   ELSE {AuxvErr}
    /\ os_zx \in IF target = "fuchsia_aarch64"
                 THEN {FailedZx, [res |-> ZX_OK, features |-> SetSum(CryptoFlags)]}
                 ELSE {FailedZx}
    /\ os_altivec \in IF target = "openbsd_powerpc"
                      THEN {FailedAltivec, [res |-> 0, out_len |-> SIZEOF_INT, out |-> 1]}
                      ELSE {FailedAltivec}
    /\ os_ncpu \in IF target = "netbsd_aarch64"
                   THEN {Some([res |-> 0, out_len |-> SIZEOF_U32, out |-> c]) :
                             c \in {1, MaxCpus}}
                        \cup {Some([res |-> -1, out_len |-> SIZEOF_U32, out |-> 0])}
                   ELSE {None}
    /\ os_cpu \in IF target = "netbsd_aarch64"
                  THEN {PresetCpus(k, a) : k \in 0..MaxCpus,
                            a \in {ShortReading, OtherReading, FailedReading}}
                  ELSE {[c \in Cores |-> None]}
    /\ Idle

CacheNext ==
    \E t \in Threads :
        \/ Query(t)
        \/ FreebsdDetect(t)
        \/ FuchsiaDetect(t)
        \/ OpenbsdPowerpcDetect(t)
        \/ OpenbsdDefaultDetect(t)
        \/ NetbsdEnter(t)
        \/ NetbsdReadCpu0(t)
        \/ NetbsdReadNcpu(t)
        \/ NetbsdLoop(t)
        \/ Publish(t)

CacheSpec == CacheInit /\ [][CacheNext]_vars

----------------------------------------------------------------------------
(* MachdepNameBuffer::name called with any sequence of core indices *)

\* 2^31 - 1, the largest index the model checker's integers hold
MaxInt == (2 ^ 30 - 1) * 2 + 1

\* the indices name is called with: the small ones, and for every number of
\* digits the smallest and the largest index
NameIndices ==
    (0..MaxIdx) \cup {Pow10(k) : k \in 1..9} \cup {Pow10(k) - 1 : k \in 1..9}
    \cup {MaxInt}

NameInit ==
    /\ target = "netbsd_aarch64"
    /\ pointer_width = 64
    /\ os_auxv = AuxvErr
    /\ os_zx = FailedZx
    /\ os_altivec = FailedAltivec
    /\ os_ncpu = None
    /\ os_cpu = [c \in Cores |-> None]
    /\ Idle

\* name_buf.name(idx) on the buffer of thread t
NameCall(t) ==
    \E idx \in NameIndices :
        LET nm == MachdepNameBuffer_name(name_buf[t], idx) IN
        /\ name_buf' = [name_buf EXCEPT ![t] = nm.buf]
        /\ name_arg' = idx
        /\ name_ret' = nm.ret
        /\ name_oob' = (name_oob \/ nm.oob)
        /\ UNCHANGED <<OsVars, os_ncpu, os_cpu, pc, value, cpu_id_buf, cpu0, cpu,
                       cpus, n, results, cache, observed>>

NameNext == \E t \in DirectCallers : NameCall(t)

NameSpec == NameInit /\ [][NameNext]_vars

----------------------------------------------------------------------------
(* Properties of the probes *)

\* bit k of the raw word w is set
RawBit(w, k) == (w \div (2 ^ k)) % 2 = 1

\* thread t holds the Bitmask a finished detect_features call returned
Returned(t) == pc[t] = "ret"

\* the answer the kernel gave for core c, when core c has been read
Asked(c) == os_cpu[c] # None

Answer(c) == os_cpu[c][1]

\* a read that succeeded as the external interface defines success: status 0
\* and the byte count of the destination
FullRead(c) == Asked(c) /\ Answer(c).res = 0 /\ Answer(c).out_len = CPU_ID_LEN

NcpuRead == os_ncpu # None /\ os_ncpu[1].res = 0 /\ os_ncpu[1].out_len = SIZEOF_U32

\* core c agrees with core 0 on the registers of the set F
Agree(c, F) == \A f \in F : Answer(c).regs[f] = Answer(0).regs[f]

ThreeRegs == {"aa64isar0", "aa64isar1", "aa64mmfr2"}

FourRegs == {"aa64isar0", "aa64isar1", "aa64mmfr2", "aa64pfr0"}

\* parse_system_registers applied to the four register values of core 0
ParseOfCore0 ==
    parse_system_registers(Answer(0).regs.aa64isar0, Answer(0).regs.aa64isar1,
                           Answer(0).regs.aa64mmfr2, Some(Answer(0).regs.aa64pfr0))

\* every read the NetBSD probe makes succeeds and every core 1..N-1 agrees
\* with core 0 on the registers of F
AllCoresAgree(F) ==
    /\ FullRead(0)
    /\ NcpuRead /\ os_ncpu[1].out >= 1
    /\ \A c \in 1..(os_ncpu[1].out - 1) : FullRead(c) /\ Agree(c, F)

\* C1 as the specification states it: when every read succeeds and every core
\* 1..N-1 equals core 0 in aa64isar0, aa64isar1 and aa64mmfr2, the NetBSD
\* probe returns parse_system_registers of core 0's four registers
C1_AsStated ==
    \A t \in Threads :
        (target = "netbsd_aarch64" /\ Returned(t) /\ AllCoresAgree(ThreeRegs))
            => value[t] = ParseOfCore0

\* C1 amended: when every read succeeds and every core 1..N-1 equals core 0
\* in aa64isar0, aa64isar1, aa64mmfr2 and aa64pfr0, the NetBSD probe returns
\* parse_system_registers of core 0's four registers; no other field of a
\* reading (midr) takes part
C1_ParseOfCore0 ==
    \A t \in Threads :
        (target = "netbsd_aarch64" /\ Returned(t) /\ AllCoresAgree(FourRegs))
            => value[t] = ParseOfCore0

\* three cores agree on the four registers, a later core has another midr,
\* and the probe has returned the parse of core 0
C1_Witness ==
    \E t \in Threads :
        /\ target = "netbsd_aarch64" /\ Returned(t) /\ AllCoresAgree(FourRegs)
        /\ os_ncpu[1].out >= 3
        /\ \E c \in 1..(os_ncpu[1].out - 1) : Answer(c).regs.midr # Answer(0).regs.midr
        /\ value[t] = ParseOfCore0
        /\ value[t] # InitializerDefault

\* C2: the NetBSD probe returns the empty Bitmask when the read of core 0
\* fails, when the core count is unreadable or 0, when the read of a core
\* 1..N-1 fails, or when a core 1..N-1 that was read differs from core 0 in a
\* compared register
C2_FailClosed ==
    \A t \in Threads :
        (target = "netbsd_aarch64" /\ Returned(t)) =>
            ((\/ (Asked(0) /\ Answer(0).res # 0)
              \/ (os_ncpu # None /\ (~NcpuRead \/ os_ncpu[1].out = 0))
              \/ (NcpuRead /\ \E c \in 1..(os_ncpu[1].out - 1) :
                      Asked(c) /\ (Answer(c).res # 0 \/ ~Agree(c, ThreeRegs))))
             => value[t] = InitializerDefault)

\* the OS source of the selected probe failed: unavailable, an error status,
\* or a byte count other than the size of the destination
SourceFailed ==
    \/ target = "freebsd_riscv" /\ os_auxv = AuxvErr
    \/ target = "fuchsia_aarch64" /\ os_zx.res # ZX_OK
    \/ target = "openbsd_powerpc"
        /\ (os_altivec.res # 0 \/ os_altivec.out_len # SIZEOF_INT)
    \/ target = "netbsd_aarch64"
        /\ \/ (os_ncpu # None /\ ~NcpuRead)
           \/ \E c \in Cores : Asked(c) /\ ~FullRead(c)

\* C3: a probe whose OS source failed (unavailable, error status, wrong byte
\* count) returns the empty Bitmask
C3_SourceFailureIsEmpty ==
    \A t \in Threads : (Returned(t) /\ SourceFailed) => value[t] = InitializerDefault

\* C4: on ZX_OK, sha2 iff SHA1 and SHA256; sha3 iff SHA1, SHA256, SHA512 and
\* SHA3; sm4 iff SM3 and SM4
C4_CompositeCrypto ==
    \A t \in Threads :
        (target = "fuchsia_aarch64" /\ Returned(t) /\ os_zx.res = ZX_OK) =>
            LET w == os_zx.features IN
            /\ ("sha2" \in value[t]) <=> (RawBit(w, 5) /\ RawBit(w, 6))
            /\ ("sha3" \in value[t]) <=>
                   (RawBit(w, 5) /\ RawBit(w, 6) /\ RawBit(w, 18) /\ RawBit(w, 10))
            /\ ("sm4" \in value[t]) <=> (RawBit(w, 11) /\ RawBit(w, 12))

\* SHA1, SHA256 and SHA3 set, SHA512 clear: sha2 present, sha3 absent
C4_Witness ==
    \E t \in Threads :
        /\ target = "fuchsia_aarch64" /\ Returned(t) /\ os_zx.res = ZX_OK
        /\ RawBit(os_zx.features, 5) /\ RawBit(os_zx.features, 6)
        /\ RawBit(os_zx.features, 10) /\ ~RawBit(os_zx.features, 18)
        /\ RawBit(os_zx.features, 11) /\ ~RawBit(os_zx.features, 12)
        /\ "sha2" \in value[t] /\ "sha3" \notin value[t] /\ "sm4" \notin value[t]

\* C5: bit d gives d, f and zicsr; bit f without bit d gives f and zicsr and
\* not d; neither bit gives none of the three; no auxiliary vector gives the
\* empty Bitmask
C5_RiscvFloat ==
    \A t \in Threads :
        (target = "freebsd_riscv" /\ Returned(t)) =>
            IF os_auxv = AuxvErr THEN value[t] = InitializerDefault
            ELSE LET w == os_auxv[2] IN
                 /\ RawBit(w, 3) => {"d", "f", "zicsr"} \subseteq value[t]
                 /\ (RawBit(w, 5) /\ ~RawBit(w, 3)) =>
                        ({"f", "zicsr"} \subseteq value[t] /\ "d" \notin value[t])
                 /\ (~RawBit(w, 5) /\ ~RawBit(w, 3)) =>
                        value[t] \cap {"d", "f", "zicsr"} = {}

\* bit f alone: f and zicsr without d
C5_Witness ==
    \E t \in Threads :
        /\ target = "freebsd_riscv" /\ Returned(t) /\ os_auxv # AuxvErr
        /\ RawBit(os_auxv[2], 5) /\ ~RawBit(os_auxv[2], 3)
        /\ {"f", "zicsr"} \subseteq value[t] /\ "d" \notin value[t]

\* C7: altivec is set iff the sysctl succeeds with the byte count of an int
\* and the value 1; nothing else is ever set
C7_Altivec ==
    \A t \in Threads :
        (target = "openbsd_powerpc" /\ Returned(t)) =>
            value[t] = IF /\ os_altivec.res = 0
                          /\ os_altivec.out_len = SIZEOF_INT
                          /\ os_altivec.out = 1
                       THEN {"altivec"} ELSE {}

\* the sysctl answered 1 and altivec is set
C7_Witness ==
    \E t \in Threads :
        /\ target = "openbsd_powerpc" /\ Returned(t)
        /\ os_altivec.res = 0 /\ os_altivec.out = 1
        /\ value[t] = {"altivec"}

\* C9: the successive calls of a probe return the same Bitmask
C9_Idempotent ==
    \A i, j \in DOMAIN results : results[i] = results[j]

\* two NetBSD calls have returned a Bitmask that is not empty, with a core
\* whose read left part of the buffer unwritten
C9_Witness ==
    /\ Len(results) >= 2
    /\ target = "netbsd_aarch64"
    /\ results[1] # InitializerDefault
    /\ \E c \in Cores : Asked(c) /\ Answer(c).res = 0 /\ ~FullRead(c)

\* the core the tuple cpu[t] was read for
LoopCore(t) == IF pc[t] = "loop" THEN n[t] - 1 ELSE n[t]

\* C10: the tuple taken as core 0's reading, and the tuple compared with it
\* for core n, hold only values the kernel wrote during that core's own read
C10_OwnRegisters ==
    \A t \in Threads :
        /\ \A i \in DOMAIN cpu0[t] : cpu0[t][i].src = 0
        /\ \A i \in DOMAIN cpu[t] : cpu[t][i].src = LoopCore(t)

----------------------------------------------------------------------------
(* Properties of the name buffer and of the cache *)

\* the number of NUL bytes of a byte string
NulCount(bytes) == Cardinality({i \in DOMAIN bytes : bytes[i] = 0})

\* C6: whatever calls came before, name(n) returns "machdep.cpu", the decimal
\* digits of n, ".cpu_id" and one NUL byte, ends with the only NUL it holds,
\* and no write falls outside the buffer
C6_NameFormat ==
    /\ ~name_oob
    /\ name_ret # <<>> =>
        /\ name_ret = NAME_PREFIX \o Decimal(name_arg) \o NAME_SUFFIX
        /\ name_ret[Len(name_ret)] = 0
        /\ NulCount(name_ret) = 1

\* a one-digit name was formatted in a buffer that still holds, behind the
\* returned slice, bytes of an earlier ten-digit name
C6_Witness ==
    /\ name_arg < 10
    /\ name_ret = NAME_PREFIX \o <<48 + name_arg>> \o NAME_SUFFIX
    /\ \A t \in DirectCallers : name_buf[t][NAME_MAX_LEN] = 0
                                /\ name_buf[t][NAME_MAX_LEN - 1] # 0

\* every Bitmask a query returned
Observations == UNION {{observed[t][i] : i \in DOMAIN observed[t]} : t \in Threads}

\* C8: every query of every thread returns the same Bitmask, which is the
\* published one, and a published Bitmask is never replaced by another
C8_OnePublishedBitmask ==
    /\ [](\A v \in Observations : cache = Some(v))
    /\ [][~is_uninitialized(cache) => cache' = cache]_vars

\* two threads each ran the NetBSD probe; one has published and answered a
\* query, the other holds the same Bitmask and is about to publish it
C8_Witness ==
    \E t1, t2 \in Threads :
        /\ t1 # t2
        /\ target = "netbsd_aarch64"
        /\ Len(observed[t1]) >= 1
        /\ pc[t2] = "ret"
        /\ cache = Some(value[t2])
        /\ value[t2] # InitializerDefault

====
